---- MODULE Spec2Model ----
(***************************************************************************)
(* State-machine model of session_keeper.py: main() builds a SessionKeeper *)
(* (loading config.json) and calls run(), which sets up the driver, logs   *)
(* in, navigates to the session URL, keeps the session alive by periodic   *)
(* refreshes and always ends in cleanup().                                 *)
(*                                                                         *)
(* One action per step of the program.  The browser, the page and the     *)
(* user's Ctrl-C are the environment: every outcome a driver call can     *)
(* have (return, raise) is a nondeterministic choice.  KeyboardInterrupt   *)
(* is delivered while the program is inside a blocking call (a driver     *)
(* call or a time.sleep), which is where the program spends its time.     *)
(***************************************************************************)
EXTENDS Integers, Sequences, FiniteSets, TLC

\* ---------------------------------------------------------------- bounds
\* largest configured session_settings.max_retries explored (0..MaxRetries)
MaxRetries == 3
\* largest number of refresh attempts of one keepalive loop explored
MaxAttempts == 6
\* largest number of keys absent from config.json explored
MaxMissing == 1

\* ------------------------------------------------------------- constants
\* keys of config.json the program reads with config[...] (KeyError if absent)
ConfigKeys ==
  {"login_url", "session_url", "credentials", "username", "password",
   "form_fields", "username_field", "password_field",
   "session_settings", "timeout", "refresh_interval", "max_retries"}

\* the URL configured as login_url, and the URLs the browser can be on
LoginUrl == "login_url"
Urls == {"login_url", "session_url", "other_url"}

\* the four locators of the submit control, in the order login() tries them
XpathCfg == "xpath_cfg"
IdLoginbtn == "id_loginbtn"
ButtonSubmit == "button_submit"
InputSubmit == "input_submit"
Locators == {XpathCfg, IdLoginbtn, ButtonSubmit, InputSubmit}

\* the steps of login() that run inside its try block
LoginTryPcs ==
  {"login_get", "login_wait", "login_fill_user", "login_find_pass",
   "login_fill_pass", "login_submit_a", "login_submit_b", "login_submit_c",
   "login_submit_d", "login_submit_check", "login_click", "login_settle",
   "login_read"}
\* the steps of navigate_to_session_url() that run inside its try block
NavTryPcs == {"nav_get", "nav_settle"}
\* the steps of keep_session_alive() that run inside its try block
KaTryPcs == {"ka_sleep", "ka_refresh"}

VARIABLES
  pc,            \* position of the single thread of control
  cfg_load,      \* outcome of _load_config: "ok", "not_found", "malformed"
  missing,       \* keys absent from the loaded config.json
  max_retries,   \* config['session_settings']['max_retries']
  submit_xpath,  \* form_fields.get('submit_button', ''): "" or "xp"
  page_controls, \* locators that find an element on the loaded login page
  driver,        \* self.driver: "None", "open", "quit"
  browser_url,   \* the URL the browser is on ("none" before any navigation)
  is_logged_in,  \* self.is_logged_in
  tried,         \* login(): the locators passed to find_element, in order
  submit_button, \* login(): the locator that found the control, or "None"
  clicked,       \* the control click() was called on, or "None"
  current_url,   \* login(): the value read from driver.current_url
  login_fail,    \* why login() returned False ("none" if it did not)
  login_result,  \* return value of login(): "None", "True", "False"
  nav_gets,      \* number of driver.get(session_url) calls
  nav_raised,    \* driver.get(session_url) raised
  nav_result,    \* return value of navigate_to_session_url()
  retry_count,   \* keep_session_alive(): retry_count
  outcomes,      \* the outcomes of the refresh attempts so far, in order
  sleeps,        \* the durations of the keepalive sleeps that returned
  ka_entered,    \* keep_session_alive() was called
  ka_result,     \* return value of keep_session_alive()
  run_result,    \* return value of run()
  exc,           \* the exception propagating out of run(), or "none"
  cleanup_calls, \* number of cleanup() calls
  quit_calls,    \* number of driver.quit() calls
  launched,      \* webdriver.Chrome() returned a driver
  ints,          \* the steps during which a KeyboardInterrupt was delivered
  exit_code      \* exit status of the process (-1 while it runs)

vars ==
  <<pc, cfg_load, missing, max_retries, submit_xpath, page_controls, driver,
    browser_url, is_logged_in, tried, submit_button, clicked, current_url,
    login_fail, login_result, nav_gets, nav_raised, nav_result, retry_count, outcomes,
    sleeps, ka_entered, ka_result, run_result, exc, cleanup_calls, quit_calls,
    launched, ints, exit_code>>

\* groups of variables an action leaves alone
cfgVars == <<cfg_load, missing, max_retries, submit_xpath>>
loginVars ==
  <<page_controls, is_logged_in, tried, submit_button, clicked, current_url,
    login_fail, login_result>>
navVars == <<nav_gets, nav_raised, nav_result>>
kaVars == <<retry_count, outcomes, sleeps, ka_entered, ka_result>>
endVars == <<run_result, cleanup_calls, quit_calls, exit_code>>

\* ------------------------------------------------------------------ Init
\* main() before SessionKeeper('config.json'): the file config.json and the
\* page the site will serve are whatever the environment holds.
Init ==
  /\ pc = "load_config"
  /\ cfg_load \in {"ok", "not_found", "malformed"}
  /\ missing \in {m \in SUBSET ConfigKeys : Cardinality(m) <= MaxMissing}
  /\ (cfg_load # "ok" => missing = {})
  /\ max_retries \in 0..MaxRetries
  /\ submit_xpath \in {"", "xp"}
  /\ page_controls = {}
  /\ driver = "None"
  /\ browser_url = "none"
  /\ is_logged_in = FALSE
  /\ tried = <<>>
  /\ submit_button = "None"
  /\ clicked = "None"
  /\ current_url = "none"
  /\ login_fail = "none"
  /\ login_result = "None"
  /\ nav_gets = 0
  /\ nav_raised = FALSE
  /\ nav_result = "None"
  /\ retry_count = 0
  /\ outcomes = <<>>
  /\ sleeps = <<>>
  /\ ka_entered = FALSE
  /\ ka_result = "None"
  /\ run_result = "None"
  /\ exc = "none"
  /\ cleanup_calls = 0
  /\ quit_calls = 0
  /\ launched = FALSE
  /\ ints = {}
  /\ exit_code = -1

\* ------------------------------------------------- exceptions and returns
\* An exception leaves run()'s try block: the finally clause runs cleanup().
Propagate(e) ==
  /\ exc' = e
  /\ pc' = "cleanup"

\* (mutant) only the else branch returns False; a failing step leaves login()
\* without a return value
LoginFails_mut(why) ==
  /\ login_fail' = why
  /\ login_result' = IF why = "same_url" THEN "False" ELSE login_result
  /\ pc' = IF why = "same_url" THEN "login_ret" ELSE "cleanup"

\* login() returns False from one of its except clauses (or its else branch).
LoginFails(why) ==
  /\ login_fail' = why
  /\ login_result' = "False"
  /\ pc' = "login_ret"

\* __init__ / _load_config: a missing or unparsable file ends the process with
\* sys.exit(1) before run() is called; missing keys are not looked at.
LoadConfig ==
  /\ pc = "load_config"
  /\ IF cfg_load = "ok"
       THEN /\ pc' = "setup"
            /\ exit_code' = exit_code
       ELSE /\ pc' = "exit"
            /\ exit_code' = 1
  /\ UNCHANGED <<cfgVars, loginVars, navVars, kaVars, driver, browser_url,
                 run_result, exc, cleanup_calls, quit_calls, launched, ints>>

\* _setup_driver: config['session_settings'] is read inside the try, whose
\* only handler is WebDriverException -> sys.exit(1) (a SystemExit).
SetupDriver ==
  /\ pc = "setup"
  /\ IF "session_settings" \in missing
       THEN /\ Propagate("KeyError")
            /\ UNCHANGED <<driver, launched>>
       ELSE \/ /\ driver' = "open"
               /\ launched' = TRUE
               /\ pc' = "login_cfg"
               /\ exc' = exc
            \/ /\ Propagate("SystemExit")
               /\ UNCHANGED <<driver, launched>>
  /\ UNCHANGED <<cfgVars, loginVars, navVars, kaVars, browser_url, endVars,
                 ints>>

\* login(), lines 85-88: four config reads before the try block.
LoginConfig ==
  /\ pc = "login_cfg"
  /\ IF {"login_url", "credentials", "form_fields", "timeout"} \cap missing # {}
       THEN Propagate("KeyError")
       ELSE /\ pc' = "login_get"
            /\ exc' = exc
  /\ UNCHANGED <<cfgVars, loginVars, navVars, kaVars, driver, browser_url,
                 endVars, launched, ints>>

\* self.driver.get(login_url): the browser ends on login_url or is redirected;
\* the page it loads holds some of the submit controls.
LoginGet ==
  /\ pc = "login_get"
  /\ \/ /\ browser_url' \in {LoginUrl, "other_url"}
        /\ page_controls' \in SUBSET Locators
        /\ pc' = "login_wait"
        /\ UNCHANGED <<login_fail, login_result>>
     \/ /\ LoginFails("get")
        /\ UNCHANGED <<browser_url, page_controls>>
  /\ UNCHANGED <<cfgVars, is_logged_in, tried, submit_button, clicked,
                 current_url, navVars, kaVars, driver, endVars, exc, launched,
                 ints>>

\* wait.until(presence_of_element_located((By.NAME, form_fields['username_field'])))
LoginWait ==
  /\ pc = "login_wait"
  /\ IF "username_field" \in missing
       THEN LoginFails("KeyError")
       ELSE \/ /\ pc' = "login_fill_user"
               /\ UNCHANGED <<login_fail, login_result>>
            \/ LoginFails("timeout")
  /\ UNCHANGED <<cfgVars, page_controls, is_logged_in, tried, submit_button,
                 clicked, current_url, navVars, kaVars, driver, browser_url,
                 endVars, exc, launched, ints>>

\* username_field.clear(); username_field.send_keys(credentials['username'])
LoginFillUser ==
  /\ pc = "login_fill_user"
  /\ \/ /\ "username" \notin missing
        /\ pc' = "login_find_pass"
        /\ UNCHANGED <<login_fail, login_result>>
     \/ /\ "username" \in missing
        /\ LoginFails("KeyError")
     \/ LoginFails("element")
  /\ UNCHANGED <<cfgVars, page_controls, is_logged_in, tried, submit_button,
                 clicked, current_url, navVars, kaVars, driver, browser_url,
                 endVars, exc, launched, ints>>

\* self.driver.find_element(By.NAME, form_fields['password_field'])
LoginFindPass ==
  /\ pc = "login_find_pass"
  /\ IF "password_field" \in missing
       THEN LoginFails("KeyError")
       ELSE \/ /\ pc' = "login_fill_pass"
               /\ UNCHANGED <<login_fail, login_result>>
            \/ LoginFails("no_password_field")
  /\ UNCHANGED <<cfgVars, page_controls, is_logged_in, tried, submit_button,
                 clicked, current_url, navVars, kaVars, driver, browser_url,
                 endVars, exc, launched, ints>>

\* password_field.clear(); password_field.send_keys(credentials['password'])
LoginFillPass ==
  /\ pc = "login_fill_pass"
  /\ \/ /\ "password" \notin missing
        /\ pc' = "login_submit_a"
        /\ UNCHANGED <<login_fail, login_result>>
     \/ /\ "password" \in missing
        /\ LoginFails("KeyError")
     \/ LoginFails("element")
  /\ UNCHANGED <<cfgVars, page_controls, is_logged_in, tried, submit_button,
                 clicked, current_url, navVars, kaVars, driver, browser_url,
                 endVars, exc, launched, ints>>

\* find_element with one locator: the element, or an exception the caller's
\* `except Exception` swallows.
Found(loc) == loc \in page_controls

\* `if submit_xpath:` (line 119): the configured XPath is tried only if set.
XpathConfigured_mut == TRUE
XpathConfigured == submit_xpath # ""

\* `if not submit_button:` (lines 126, 134, 142): a fallback is tried only
\* while no control has been found.
FallbackNeeded_mut == TRUE
FallbackNeeded == submit_button = "None"

\* one fallback block: `if not submit_button: try: submit_button = find(loc)`
TryFallback(loc, next) ==
  /\ IF FallbackNeeded
       THEN /\ tried' = Append(tried, loc)
            /\ submit_button' = IF Found(loc) THEN loc ELSE submit_button
       ELSE UNCHANGED <<tried, submit_button>>
  /\ pc' = next
  /\ UNCHANGED <<cfgVars, page_controls, is_logged_in, clicked, current_url,
                 login_fail, login_result, navVars, kaVars, driver,
                 browser_url, endVars, exc, launched, ints>>

\* lines 114-123: submit_button = None; the configured XPath, if non-empty
LoginSubmitA ==
  /\ pc = "login_submit_a"
  /\ IF XpathConfigured
       THEN /\ tried' = Append(tried, XpathCfg)
            /\ submit_button' = IF Found(XpathCfg) THEN XpathCfg ELSE "None"
       ELSE UNCHANGED <<tried, submit_button>>
  /\ pc' = "login_submit_b"
  /\ UNCHANGED <<cfgVars, page_controls, is_logged_in, clicked, current_url,
                 login_fail, login_result, navVars, kaVars, driver,
                 browser_url, endVars, exc, launched, ints>>

\* lines 126-132: By.ID 'loginbtn'
LoginSubmitB ==
  /\ pc = "login_submit_b"
  /\ TryFallback(IdLoginbtn, "login_submit_c")

\* lines 134-140: By.XPATH //button[@type='submit']
LoginSubmitC ==
  /\ pc = "login_submit_c"
  /\ TryFallback(ButtonSubmit, "login_submit_d")

\* lines 142-148: By.XPATH //input[@type='submit']
LoginSubmitD ==
  /\ pc = "login_submit_d"
  /\ TryFallback(InputSubmit, "login_submit_check")

\* (mutant) the test of line 150 is missing
LoginSubmitCheck_mut ==
  /\ pc = "login_submit_check"
  /\ pc' = "login_click"
  /\ UNCHANGED <<cfgVars, loginVars, navVars, kaVars, driver, browser_url,
                 endVars, exc, launched, ints>>

\* lines 150-151: no control found by any locator raises, caught at line 172
LoginSubmitCheck ==
  /\ pc = "login_submit_check"
  /\ IF submit_button = "None"
       THEN LoginFails("no_submit")
       ELSE /\ pc' = "login_click"
            /\ UNCHANGED <<login_fail, login_result>>
  /\ UNCHANGED <<cfgVars, page_controls, is_logged_in, tried, submit_button,
                 clicked, current_url, navVars, kaVars, driver, browser_url,
                 endVars, exc, launched, ints>>

\* submit_button.click(): the form is sent and the browser may move on, or
\* click() raises
LoginClick ==
  /\ pc = "login_click"
  /\ \/ /\ clicked' = submit_button
        /\ browser_url' \in {LoginUrl, "other_url"}
        /\ pc' = "login_settle"
        /\ UNCHANGED <<login_fail, login_result>>
     \/ /\ LoginFails("click")
        /\ UNCHANGED <<clicked, browser_url>>
  /\ UNCHANGED <<cfgVars, page_controls, is_logged_in, tried, submit_button,
                 current_url, navVars, kaVars, driver, endVars, exc, launched,
                 ints>>

\* time.sleep(3): the page may still redirect while the program sleeps
LoginSettle ==
  /\ pc = "login_settle"
  /\ browser_url' \in {LoginUrl, "other_url"}
  /\ pc' = "login_read"
  /\ UNCHANGED <<cfgVars, loginVars, navVars, kaVars, driver, endVars, exc,
                 launched, ints>>

\* `if current_url != login_url:` (line 161)
UrlChanged_mut(url) == url = LoginUrl
UrlChanged(url) == url # LoginUrl

\* lines 160-167: read driver.current_url and compare it with login_url
LoginRead ==
  /\ pc = "login_read"
  /\ \/ /\ current_url' = browser_url
        /\ IF UrlChanged(browser_url)
             THEN /\ is_logged_in' = TRUE
                  /\ login_result' = "True"
                  /\ login_fail' = login_fail
             ELSE /\ is_logged_in' = is_logged_in
                  /\ login_result' = "False"
                  /\ login_fail' = "same_url"
        /\ pc' = "login_ret"
     \/ /\ LoginFails("read")
        /\ UNCHANGED <<current_url, is_logged_in>>
  /\ UNCHANGED <<cfgVars, page_controls, tried, submit_button, clicked,
                 navVars, kaVars, driver, browser_url, endVars, exc, launched,
                 ints>>

\* `if not self.login():` / `if not self.navigate_to_session_url():` --
\* run() goes on to the next phase only when the phase returned True
Proceeds_mut(result) == TRUE
Proceeds(result) == result = "True"

\* run(), lines 233-235: `if not self.login(): return False`
RunAfterLogin ==
  /\ pc = "login_ret"
  /\ IF Proceeds(login_result)
       THEN /\ pc' = "nav_cfg"
            /\ run_result' = run_result
       ELSE /\ pc' = "cleanup"
            /\ run_result' = "False"
  /\ UNCHANGED <<cfgVars, loginVars, navVars, kaVars, driver, browser_url,
                 exc, cleanup_calls, quit_calls, exit_code, launched, ints>>

\* navigate_to_session_url(), line 178: config read before the try block
NavConfig ==
  /\ pc = "nav_cfg"
  /\ IF "session_url" \in missing
       THEN Propagate("KeyError")
       ELSE /\ pc' = "nav_get"
            /\ exc' = exc
  /\ UNCHANGED <<cfgVars, loginVars, navVars, kaVars, driver, browser_url,
                 endVars, launched, ints>>

\* self.driver.get(session_url): returns (on whatever page) or raises
NavGet ==
  /\ pc = "nav_get"
  /\ nav_gets' = nav_gets + 1
  /\ \/ /\ browser_url' \in Urls
        /\ pc' = "nav_settle"
        /\ nav_result' = nav_result
        /\ nav_raised' = nav_raised
     \/ /\ nav_result' = "False"
        /\ nav_raised' = TRUE
        /\ pc' = "nav_ret"
        /\ browser_url' = browser_url
  /\ UNCHANGED <<cfgVars, loginVars, kaVars, driver, endVars, exc, launched,
                 ints>>

\* `return True` (line 183): the result does not depend on the page reached
NavResult_mut(url) == IF url = "session_url" THEN "True" ELSE "False"
NavResult(url) == "True"

\* time.sleep(2); return True
NavSettle ==
  /\ pc = "nav_settle"
  /\ nav_result' = NavResult(browser_url)
  /\ pc' = "nav_ret"
  /\ UNCHANGED <<cfgVars, loginVars, nav_gets, nav_raised, kaVars, driver,
                 browser_url, endVars, exc, launched, ints>>

\* run(), lines 238-240: `if not self.navigate_to_session_url(): return False`
RunAfterNav ==
  /\ pc = "nav_ret"
  /\ IF Proceeds(nav_result)
       THEN /\ pc' = "ka_cfg"
            /\ run_result' = run_result
       ELSE /\ pc' = "cleanup"
            /\ run_result' = "False"
  /\ UNCHANGED <<cfgVars, loginVars, navVars, kaVars, driver, browser_url,
                 exc, cleanup_calls, quit_calls, exit_code, launched, ints>>

\* keep_session_alive(), lines 201-206: two config reads before the try
\* block, then retry_count = 0
KaConfig ==
  /\ pc = "ka_cfg"
  /\ ka_entered' = TRUE
  /\ IF {"refresh_interval", "max_retries"} \cap missing # {}
       THEN /\ Propagate("KeyError")
            /\ retry_count' = retry_count
       ELSE /\ retry_count' = 0
            /\ pc' = "ka_sleep"
            /\ exc' = exc
  /\ UNCHANGED <<cfgVars, loginVars, navVars, outcomes, sleeps, ka_result,
                 driver, browser_url, endVars, launched, ints>>

\* config['session_settings']['refresh_interval'] (line 201), as a symbol
RefreshInterval == "refresh_interval"

\* the argument of time.sleep in the loop (line 210): the configured
\* interval, whatever the retry counter
SleepDuration_mut(rc) == IF rc = 0 THEN RefreshInterval ELSE "backoff"
SleepDuration(rc) == RefreshInterval

\* time.sleep(refresh_interval) returns
KaSleep ==
  /\ pc = "ka_sleep"
  /\ sleeps' = Append(sleeps, SleepDuration(retry_count))
  /\ pc' = "ka_refresh"
  /\ UNCHANGED <<cfgVars, loginVars, navVars, retry_count, outcomes,
                 ka_entered, ka_result, driver, browser_url, endVars, exc,
                 launched, ints>>

\* `while True:` (line 209): after a refresh that does not end the loop the
\* next statement is the sleep of line 210
LoopBack_mut == "ka_ret"
LoopBackNoSleep_mut == "ka_refresh"
LoopBack == "ka_sleep"

\* `retry_count = 0` after a successful refresh (line 213)
AfterSuccess_mut(rc) == rc
AfterSuccess(rc) == 0

\* `if retry_count >= max_retries:` (line 218)
Exhausted_mut(rc) == rc > max_retries
Exhausted(rc) == rc >= max_retries

\* lines 212-220: refresh_page() returns True (refreshed) or False (the
\* refresh raised); the retry counter and the exhaustion test follow
KaRefresh ==
  /\ pc = "ka_refresh"
  /\ Len(outcomes) < MaxAttempts
  /\ \E ok \in BOOLEAN :
       /\ outcomes' = Append(outcomes, ok)
       /\ IF ok
            THEN /\ retry_count' = AfterSuccess(retry_count)
                 /\ pc' = LoopBack
                 /\ ka_result' = ka_result
            ELSE /\ retry_count' = retry_count + 1
                 /\ IF Exhausted(retry_count + 1)
                      THEN /\ ka_result' = "False"
                           /\ pc' = "ka_ret"
                      ELSE /\ ka_result' = ka_result
                           /\ pc' = LoopBack
  /\ UNCHANGED <<cfgVars, loginVars, navVars, sleeps, ka_entered, driver,
                 browser_url, endVars, exc, launched, ints>>

\* the value keep_session_alive() returns from `except KeyboardInterrupt`
\* (line 224)
InterruptedResult_mut == "False"
InterruptedResult == "True"

\* lines 222-224: a KeyboardInterrupt raised anywhere in the while loop, in
\* time.sleep or in refresh_page (whose `except Exception` does not catch
\* it), is caught here
KaInterrupt ==
  /\ pc \in KaTryPcs
  /\ ints' = ints \cup {pc}
  /\ ka_result' = InterruptedResult
  /\ pc' = "ka_ret"
  /\ UNCHANGED <<cfgVars, loginVars, navVars, retry_count, outcomes, sleeps,
                 ka_entered, driver, browser_url, endVars, exc, launched>>

\* `self.keep_session_alive()` then `return True` (lines 243-245)
RunValue_mut(ka) == ka
RunValue(ka) == "True"

\* run(), lines 243-245: the result of keep_session_alive() is dropped
RunAfterKa ==
  /\ pc = "ka_ret"
  /\ run_result' = RunValue(ka_result)
  /\ pc' = "cleanup"
  /\ UNCHANGED <<cfgVars, loginVars, navVars, kaVars, driver, browser_url,
                 exc, cleanup_calls, quit_calls, exit_code, launched, ints>>

\* the blocking calls of _setup_driver, login and navigate_to_session_url
InterruptiblePcs ==
  {"setup"} \cup (LoginTryPcs \ {"login_submit_check"}) \cup NavTryPcs

\* (mutant) the signal is ignored outside keep_session_alive
Interrupt_mut ==
  /\ pc \in InterruptiblePcs
  /\ pc \notin ints
  /\ ints' = ints \cup {pc}
  /\ UNCHANGED <<pc, cfgVars, loginVars, navVars, kaVars, driver, browser_url,
                 endVars, exc, launched>>

\* a KeyboardInterrupt outside keep_session_alive: `except Exception` and
\* `except WebDriverException` do not catch it, so it leaves run()
Interrupt ==
  /\ pc \in InterruptiblePcs
  /\ ints' = ints \cup {pc}
  /\ Propagate("KeyboardInterrupt")
  /\ UNCHANGED <<cfgVars, loginVars, navVars, kaVars, driver, browser_url,
                 endVars, launched>>

\* `if self.driver:` (line 252)
HasDriver_mut == TRUE
HasDriver == driver # "None"

\* (mutant) cleanup() also resets the session state
Cleanup_mut ==
  /\ pc = "cleanup"
  /\ cleanup_calls' = cleanup_calls + 1
  /\ is_logged_in' = FALSE
  /\ IF HasDriver
       THEN /\ quit_calls' = quit_calls + 1
            /\ driver' = "quit"
            /\ \/ exc' = exc
               \/ exc' = "WebDriverException"
       ELSE UNCHANGED <<quit_calls, driver, exc>>
  /\ pc' = "run_ret"
  /\ UNCHANGED <<cfgVars, page_controls, tried, submit_button, clicked,
                 current_url, login_fail, login_result, navVars, kaVars,
                 browser_url, run_result, exit_code, launched, ints>>

\* run()'s finally clause: cleanup() quits the driver if there is one;
\* quit() returns or raises
Cleanup ==
  /\ pc = "cleanup"
  /\ cleanup_calls' = cleanup_calls + 1
  /\ IF HasDriver
       THEN /\ quit_calls' = quit_calls + 1
            /\ driver' = "quit"
            /\ \/ exc' = exc
               \/ exc' = "WebDriverException"
       ELSE UNCHANGED <<quit_calls, driver, exc>>
  /\ pc' = "run_ret"
  /\ UNCHANGED <<cfgVars, loginVars, navVars, kaVars, browser_url, run_result,
                 exit_code, launched, ints>>

\* a KeyboardInterrupt while cleanup() is inside driver.quit()
CleanupInterrupt ==
  /\ pc = "cleanup"
  /\ HasDriver
  /\ cleanup_calls' = cleanup_calls + 1
  /\ quit_calls' = quit_calls + 1
  /\ driver' = "quit"
  /\ ints' = ints \cup {pc}
  /\ exc' = "KeyboardInterrupt"
  /\ pc' = "run_ret"
  /\ UNCHANGED <<cfgVars, loginVars, navVars, kaVars, browser_url, run_result,
                 exit_code, launched>>

\* the exit status Python gives an exception that leaves main()
ExitStatus(e) ==
  IF e = "none" THEN 0
  ELSE IF e = "KeyboardInterrupt" THEN 130
  ELSE 1

\* main(), lines 266-268: run()'s return value is not used; the process ends
\* with status 0 unless an exception left run()
MainEnd ==
  /\ pc = "run_ret"
  /\ exit_code' = ExitStatus(exc)
  /\ pc' = "exit"
  /\ UNCHANGED <<cfgVars, loginVars, navVars, kaVars, driver, browser_url,
                 run_result, exc, cleanup_calls, quit_calls, launched, ints>>

Next ==
  \/ LoadConfig
  \/ SetupDriver
  \/ LoginConfig
  \/ LoginGet
  \/ LoginWait
  \/ LoginFillUser
  \/ LoginFindPass
  \/ LoginFillPass
  \/ LoginSubmitA
  \/ LoginSubmitB
  \/ LoginSubmitC
  \/ LoginSubmitD
  \/ LoginSubmitCheck
  \/ LoginClick
  \/ LoginSettle
  \/ LoginRead
  \/ RunAfterLogin
  \/ NavConfig
  \/ NavGet
  \/ NavSettle
  \/ RunAfterNav
  \/ KaConfig
  \/ KaSleep
  \/ KaRefresh
  \/ KaInterrupt
  \/ RunAfterKa
  \/ Interrupt
  \/ Cleanup
  \/ CleanupInterrupt
  \/ MainEnd

Spec == Init /\ [][Next]_vars

\* ======================================================================
\* Properties
\* ======================================================================

\* number of failures at the end of a sequence of refresh outcomes
RECURSIVE TrailingFailures(_)
TrailingFailures(s) ==
  IF s = <<>> \/ s[Len(s)] THEN 0
  ELSE 1 + TrailingFailures(SubSeq(s, 1, Len(s) - 1))

IsPrefix(s, t) == Len(s) <= Len(t) /\ s = SubSeq(t, 1, Len(s))

\* the while loop of keep_session_alive has been entered
KaStarted == pc \in KaTryPcs \/ ka_result # "None"

\* the number of consecutive failures that ends the loop: max_retries, and
\* one when max_retries is 0 (the test runs only after a failure)
FailuresToFail == IF max_retries = 0 THEN 1 ELSE max_retries

\* C1 (as amended): once the loop is entered it has returned False (FAILED)
\* exactly when the refresh outcomes so far end in max(max_retries, 1)
\* consecutive failures; the run of failures never grows past that number,
\* so no refresh is attempted once it is reached.
C1_FailsAtExactlyNFailures ==
  KaStarted =>
    /\ (ka_result = "False") <=> (TrailingFailures(outcomes) >= FailuresToFail)
    /\ TrailingFailures(outcomes) <= FailuresToFail

\* C1 (as claimed): for every max_retries >= 0 the loop is FAILED exactly when
\* max_retries consecutive failures have occurred.
C1_Original ==
  KaStarted =>
    ((ka_result = "False") <=> (TrailingFailures(outcomes) >= max_retries))

C1_Witness ==
  /\ max_retries = 2
  /\ outcomes = <<FALSE, TRUE, FALSE, FALSE>>
  /\ ka_result = "False"

\* the scenario of the spec: max_retries = 3 and these six refresh outcomes
Scenario == <<FALSE, FALSE, TRUE, FALSE, FALSE, FALSE>>

\* C2: the retry counter is the number of consecutive failures since the
\* last success: a success leaves it at 0 with the loop not FAILED, and the
\* loop is FAILED only with max_retries failures in a row behind it.  With
\* max_retries = 3 and outcomes [fail, fail, success, fail, fail, fail] and no
\* interrupt, the loop is still running after attempts 1 to 5 and has
\* returned False after the 6th.
C2_SuccessResetsCounter ==
  KaStarted =>
    /\ retry_count = TrailingFailures(outcomes)
    /\ (outcomes # <<>> /\ outcomes[Len(outcomes)]) =>
         (retry_count = 0 /\ ka_result # "False")
    /\ (ka_result = "False") => (TrailingFailures(outcomes) >= max_retries)
    /\ (max_retries = 3 /\ ints = {} /\ IsPrefix(outcomes, Scenario)) =>
         IF outcomes = Scenario
           THEN ka_result = "False"
           ELSE ka_result = "None" /\ pc \in KaTryPcs

C2_Witness ==
  /\ max_retries = 3
  /\ outcomes = Scenario
  /\ ka_result = "False"

\* C3: once a KeyboardInterrupt has been delivered during the sleep of the
\* keepalive loop, keep_session_alive has returned True (STOPPED, not FAILED)
\* whatever retry_count was, and no refresh outcome is ever added.
C3_SleepInterruptStops ==
  /\ [](("ka_sleep" \in ints) =>
          (ka_result = "True" /\ pc \in {"ka_ret", "cleanup", "run_ret", "exit"}))
  /\ [][("ka_sleep" \in ints') => (outcomes' = outcomes)]_vars

C3_Witness ==
  /\ "ka_sleep" \in ints
  /\ max_retries = 3
  /\ retry_count = max_retries - 1
  /\ ka_result = "True"

\* run() has ended (returned or raised)
RunEnded == pc \in {"run_ret", "exit"} /\ cfg_load = "ok"

\* C4 (as amended): in every run of run(), cleanup() is called exactly once,
\* whichever way the run ends; driver.quit() is called exactly once when the
\* driver was launched and not at all when driver setup failed.
C4_CleanupOnceQuitIfLaunched ==
  /\ cleanup_calls <= 1
  /\ quit_calls <= 1
  /\ RunEnded =>
       /\ cleanup_calls = 1
       /\ quit_calls = IF launched THEN 1 ELSE 0

\* C4 (as claimed): driver.quit() is called exactly once in every run,
\* driver setup failure included.
C4_Original == RunEnded => quit_calls = 1

C4_Witness ==
  /\ pc = "exit"
  /\ exc = "KeyError"
  /\ ka_entered
  /\ quit_calls = 1
  /\ cleanup_calls = 1

\* C5: the session URL is navigated to only after login returned True; the
\* keepalive loop is entered and refreshes happen only after login and the
\* navigation both returned True; a False from login means no navigation
\* and no refresh, a False from the navigation means no refresh.
C5_StrictSequencing ==
  /\ (nav_gets > 0 \/ pc \in {"nav_cfg", "nav_ret"} \cup NavTryPcs) =>
       login_result = "True"
  /\ (ka_entered \/ outcomes # <<>> \/ pc \in {"ka_cfg", "ka_ret"} \cup KaTryPcs) =>
       (login_result = "True" /\ nav_result = "True")
  /\ (login_result = "False") =>
       (nav_gets = 0 /\ nav_result = "None" /\ ~ka_entered /\ outcomes = <<>>)
  /\ (nav_result = "False") => (~ka_entered /\ outcomes = <<>>)
  /\ (login_result = "None") => (nav_gets = 0 /\ ~ka_entered)

C5_Witness ==
  /\ pc = "exit"
  /\ login_result = "True"
  /\ nav_result = "False"
  /\ nav_gets = 1

\* login() got as far as the test of submit_button (line 150)
ChainDone ==
  \/ pc \in {"login_submit_check", "login_click", "login_settle", "login_read"}
  \/ login_fail \in {"no_submit", "click", "read", "same_url"}
  \/ login_result = "True"

\* login() returned without any step other than the submit-control
\* resolution failing
LoginRanToVerdict ==
  /\ pc = "login_ret"
  /\ login_fail \in {"none", "no_submit", "same_url"}

\* C6 (as amended): login() returns True if and only if a submit control was
\* resolved and clicked and the URL read from the browser after the settle
\* period differs from login_url, whichever locator of the chain found the
\* control; when no locator finds one, login() returns False without
\* reading the URL, whatever URL the browser is on.
C6_TrueIffReadUrlDiffers ==
  (login_result # "None") =>
    /\ (login_result = "True") <=> (current_url \notin {"none", LoginUrl})
    /\ (login_result = "True") => is_logged_in
    /\ (current_url # "none") =>
         (submit_button # "None" /\ clicked = submit_button)
    /\ (pc = "login_ret" /\ current_url # "none") => current_url = browser_url
    /\ (submit_button = "None") => current_url = "none"

\* C6 (as claimed): for every outcome of the fallback chain, not found at all
\* included, login() returns True exactly when the browser's URL at the end
\* of login differs from login_url.
C6_Original ==
  LoginRanToVerdict => ((login_result = "True") <=> (browser_url # LoginUrl))

C6_Witness ==
  /\ pc = "login_ret"
  /\ login_result = "True"
  /\ submit_button = InputSubmit
  /\ current_url = "other_url"

\* the locators login() is to try, in order, for the configured submit_button
Order ==
  IF submit_xpath = ""
    THEN <<IdLoginbtn, ButtonSubmit, InputSubmit>>
    ELSE <<XpathCfg, IdLoginbtn, ButtonSubmit, InputSubmit>>

\* position in a sequence of locators of the first one present on the page,
\* 0 if none is
FirstPresent(order) ==
  IF \E i \in 1..Len(order) : order[i] \in page_controls
    THEN CHOOSE i \in 1..Len(order) :
           /\ order[i] \in page_controls
           /\ \A j \in 1..(i - 1) : order[j] \notin page_controls
    ELSE 0

\* C7: the locators are tried in the order configured XPath (skipped when
\* empty), id loginbtn, button[type=submit], input[type=submit]; the tries
\* stop at the first locator that finds a control, which is the control
\* resolved and the one clicked; with submit_button = "" and an element with
\* id loginbtn on the page the control is resolved by the id, and neither
\* of the two later locators is tried.
C7_OrderedFallback ==
  /\ IsPrefix(tried, Order)
  /\ ChainDone =>
       LET k == FirstPresent(Order) IN
         IF k = 0
           THEN submit_button = "None" /\ tried = Order /\ clicked = "None"
           ELSE /\ submit_button = Order[k]
                /\ tried = SubSeq(Order, 1, k)
                /\ clicked \in {"None", submit_button}
  /\ (ChainDone /\ submit_xpath = "" /\ IdLoginbtn \in page_controls) =>
       (submit_button = IdLoginbtn /\ tried = <<IdLoginbtn>>)

C7_Witness ==
  /\ submit_xpath = ""
  /\ page_controls = {IdLoginbtn, ButtonSubmit, InputSubmit}
  /\ clicked = IdLoginbtn
  /\ tried = <<IdLoginbtn>>

\* the fields the data model requires
RequiredKeys ==
  {"login_url", "session_url", "credentials", "username_field",
   "password_field", "timeout", "refresh_interval", "max_retries"}

\* C8 (as claimed): when config.json lacks a required field the driver is
\* never launched, the browser is never used, and the process ends with a
\* non-zero exit code.
C8_MissingFieldFailsAtLoad ==
  (cfg_load = "ok" /\ missing \cap RequiredKeys # {}) =>
    /\ ~launched
    /\ browser_url = "none"
    /\ (pc = "exit") => (exit_code # 0)

\* C9 (as claimed): the exit code is non-zero when run() returned False
\* (login or navigation failed), and 0 when run() completed or the keepalive
\* loop was interrupted cleanly.
C9_ExitCodeReflectsFailure ==
  (pc = "exit" /\ cfg_load = "ok") =>
    /\ (run_result = "False") => (exit_code # 0)
    /\ (run_result = "True" /\ exc = "none") => (exit_code = 0)

\* the steps of login and of the navigation where an interrupt was delivered
EarlyInterrupts == ints \cap (LoginTryPcs \cup NavTryPcs)

\* C10 (as amended): keep_session_alive returns True (STOPPED) only for an
\* interrupt delivered inside its loop, during the sleep or during the
\* refresh call; an interrupt delivered during login or during the
\* navigation never gives STOPPED: the KeyboardInterrupt leaves run(), the
\* keepalive loop is never entered and no refresh is attempted.
C10_InterruptOutcome ==
  /\ (EarlyInterrupts # {}) =>
       /\ exc # "none"
       /\ run_result = "None"
       /\ ka_result = "None" /\ ~ka_entered /\ outcomes = <<>>
       /\ pc \in {"cleanup", "run_ret", "exit"}
       /\ (pc = "exit") => (exit_code # 0)
  /\ ("ka_refresh" \in ints) => (ka_result = "True")
  /\ (ka_result = "True") => (ints \cap KaTryPcs # {})

\* C10 (as claimed): an interrupt delivered during login, during the
\* navigation or during the refresh call does not abort the run and does not
\* give the STOPPED outcome.
C10_Original ==
  (EarlyInterrupts # {} \/ "ka_refresh" \in ints) =>
    (exc = "none" /\ ("ka_sleep" \notin ints => ka_result # "True"))

C10_Witness ==
  /\ "login_settle" \in ints
  /\ pc = "exit"
  /\ exit_code = 130
  /\ quit_calls = 1

\* the steps of login() that can fail, by the reason login() records
LoginFailures ==
  {"get", "timeout", "no_password_field", "element", "no_submit", "click",
   "read"}

\* C11: with a well-formed configuration and no interrupt, login() always
\* returns: once control has left login() its result is True or False and
\* no exception is on its way to run(); a failure of any step (navigation,
\* wait for the username field, password field lookup, clear/type, submit
\* control lookup, click, URL read) gives the result False.
C11_LoginFailsClosed ==
  /\ (login_fail # "none") =>
       (login_result = "False" /\ ~is_logged_in)
  /\ (missing = {} /\ launched /\ ints \cap LoginTryPcs = {}
        /\ pc \notin {"login_cfg"} \cup LoginTryPcs) =>
       /\ login_result \in {"True", "False"}
       /\ (login_result = "False") <=> (login_fail \in LoginFailures \cup {"same_url"})
       /\ (pc = "login_ret") => (exc = "none")

C11_Witness ==
  /\ pc = "login_ret"
  /\ missing = {}
  /\ login_fail = "read"
  /\ login_result = "False"
  /\ exc = "none"

\* C12: the loop of keep_session_alive is left only by returning False with
\* the retry budget exhausted (FAILED) or by returning True on an interrupt
\* (STOPPED); while no interrupt has arrived and the failures in a row are
\* below the budget the loop is running, and a running loop can always take
\* its next step: the sleep returns into a refresh attempt and a refresh
\* attempt (within the MaxAttempts explored) can be made.
C12_LoopNeverEndsOnItsOwn ==
  /\ [][(pc \in KaTryPcs /\ pc' \notin KaTryPcs) =>
          /\ pc' = "ka_ret"
          /\ \/ /\ ka_result' = "False"
                /\ TrailingFailures(outcomes') >= FailuresToFail
             \/ /\ ka_result' = "True"
                /\ ints' # ints]_vars
  /\ [][(pc = "ka_sleep" /\ ints' = ints) => (pc' = "ka_refresh")]_vars
  /\ [][(pc = "ka_refresh" /\ ints' = ints) =>
          (Len(outcomes') = Len(outcomes) + 1)]_vars
  /\ []((KaStarted /\ ints \cap KaTryPcs = {}
           /\ TrailingFailures(outcomes) < FailuresToFail) =>
          (pc \in KaTryPcs /\ ka_result = "None"))
  /\ []((pc = "ka_sleep") => ENABLED KaSleep)
  /\ []((pc = "ka_refresh" /\ Len(outcomes) < MaxAttempts) => ENABLED KaRefresh)

C12_Witness ==
  /\ pc = "ka_sleep"
  /\ max_retries = 2
  /\ outcomes = <<FALSE, TRUE, FALSE, TRUE, FALSE, TRUE>>
  /\ ints = {}

\* C13 (as amended): the exhaustion test is made only after a failed
\* refresh; whenever the loop is running retry_count is below
\* max(max_retries, 1), and after a successful refresh the loop is running
\* whatever max_retries is (0 included).
C13_RunningBelowBudget ==
  /\ (pc \in KaTryPcs) => (retry_count < FailuresToFail)
  /\ (KaStarted /\ ints \cap KaTryPcs = {} /\ outcomes # <<>>
        /\ outcomes[Len(outcomes)]) =>
       (pc \in KaTryPcs /\ ka_result = "None")

\* C13 (as claimed): the test is made in every cycle, so at the start of a
\* cycle retry_count < max_retries, for every max_retries >= 0.
C13_Original == (pc = "ka_sleep") => (retry_count < max_retries)

C13_Witness ==
  /\ pc = "ka_sleep"
  /\ max_retries = 0
  /\ outcomes = <<TRUE>>
  /\ retry_count = 0

\* C14: when none of the locators tried finds a submit control, login()
\* returns False through its own except clause: nothing is clicked, the
\* current URL is not read, is_logged_in stays False and run() goes to
\* cleanup without navigating.
C14_NoSubmitControl ==
  (submit_button = "None" /\ tried = Order
     /\ pc \notin LoginTryPcs /\ EarlyInterrupts = {}) =>
    /\ login_result = "False"
    /\ login_fail = "no_submit"
    /\ clicked = "None"
    /\ current_url = "none"
    /\ ~is_logged_in
    /\ nav_gets = 0
    /\ (pc = "login_ret") => (exc = "none")

C14_Witness ==
  /\ pc = "login_ret"
  /\ submit_xpath = "xp"
  /\ page_controls = {}
  /\ Len(tried) = 4
  /\ login_fail = "no_submit"

\* C15: the k-th refresh attempt is made right after the k-th sleep of the
\* loop has returned: at the start of a cycle as many sleeps as attempts
\* are behind, at the refresh one sleep more, never an attempt without its
\* sleep; every sleep, after a failure as after a success, lasts
\* refresh_interval.
C15_OneSleepPerRefresh ==
  /\ Len(outcomes) <= Len(sleeps)
  /\ Len(sleeps) <= Len(outcomes) + 1
  /\ (pc = "ka_sleep") => (Len(sleeps) = Len(outcomes))
  /\ (pc = "ka_refresh") => (Len(sleeps) = Len(outcomes) + 1)
  /\ \A i \in 1..Len(sleeps) : sleeps[i] = RefreshInterval

C15_Witness ==
  /\ pc = "ka_refresh"
  /\ max_retries = 3
  /\ outcomes = <<TRUE, FALSE, FALSE>>
  /\ Len(sleeps) = 4

\* C16: is_logged_in is False until login() returns True and True from then
\* on: it is True exactly when login() has returned True; the only step that
\* changes it is the URL check of login(), when it sets it together with
\* the True result; failing logins, navigation, keepalive and cleanup leave
\* it alone.
C16_LoggedInOnlyByLogin ==
  /\ [](is_logged_in <=> (login_result = "True"))
  /\ [][(is_logged_in' # is_logged_in) =>
          (pc = "login_read" /\ is_logged_in' /\ login_result' = "True")]_vars

C16_Witness ==
  /\ pc = "exit"
  /\ is_logged_in
  /\ ka_result = "False"
  /\ quit_calls = 1

\* C17: navigate_to_session_url() returns True exactly when
\* driver.get(session_url) did not raise, on whatever URL the browser ended,
\* and returns False, with no exception leaving it, exactly when it raised.
C17_NavTrueUnlessGetRaises ==
  /\ (nav_result = "True") <=> (nav_gets = 1 /\ ~nav_raised /\ pc \notin NavTryPcs
                                  /\ ints \cap NavTryPcs = {})
  /\ (nav_result = "False") <=> nav_raised
  /\ nav_raised => (nav_gets = 1 /\ ints \cap NavTryPcs = {})
  /\ (pc = "nav_ret") => (exc = "none" /\ nav_result \in {"True", "False"})

C17_Witness ==
  /\ pc = "nav_ret"
  /\ nav_result = "True"
  /\ browser_url = LoginUrl

C19_BrowserUsedOnlyWhileOpen ==
  /\ []((quit_calls > 0) => (launched /\ driver = "quit"))
  /\ [](~launched => (driver = "None" /\ quit_calls = 0 /\ browser_url = "none"))
  /\ []((pc \in LoginTryPcs \cup NavTryPcs \cup KaTryPcs) => (driver = "open"))
  /\ []((driver = "quit") => (pc \in {"run_ret", "exit"}))
  /\ [][(driver = "quit" \/ driver' # "open") =>
          UNCHANGED <<browser_url, page_controls, tried, clicked, current_url,
                      nav_gets, outcomes>>]_vars

C19_Witness ==
  /\ pc = "exit"
  /\ ~launched
  /\ exc = "SystemExit"
  /\ cleanup_calls = 1
  /\ quit_calls = 0

====
